---- MODULE Spec2Model ----
(***************************************************************************)
(* The code-analysis engine of wizelit-mcp-server-test, in its two copies: *)
(* analyzeCode of the command-line tool (tools/analyze-code.js, the second *)
(* half of src/tools/format-code.js) and analyzeCode of the HTTP service   *)
(* (src/services/code-processor/server.js).                                *)
(*                                                                         *)
(* A JavaScript string is a sequence of one-character strings, so that     *)
(* includes, split and the regular expressions of the source are computed  *)
(* character by character, as the JavaScript engine computes them.         *)
(***************************************************************************)
EXTENDS Integers, Sequences, FiniteSets

----------------------------------------------------------------------------
(* Bounds of the enumeration of inputs and calls *)

\* longest input, in tokens of Tokens
MaxTokens == 3
\* longest input, in tokens of KeywordTokens
MaxKeywords == 3
\* longest run of one keyword
MaxRepeat == 21
\* calls of one path that a behaviour of SpecRepeat records
MaxCalls == 3
\* requests the service receives in a behaviour of SpecService
MaxRequests == 2

----------------------------------------------------------------------------
(* The state: one input, the clock, and the calls made so far on each path; the *)
(* run of the command-line tool; the requests of the service                    *)

VARIABLES
    input,      \* the input under analysis
    clock,      \* what the next new Date() returns; it advances with every read
    cliCalls,   \* the calls of analyzeCode of the command-line tool: <<[code, report]>>
    httpCalls,  \* the calls of analyzeCode of the service: <<[code, report]>>
    cliRun,     \* the run of node analyze-code.js: <<>>, or <<[argv, status, stdout, stderr]>>
    requests    \* the requests of the service, by number: [pc, route, body, sent, ...]

vars == <<input, clock, cliCalls, httpCalls, cliRun, requests>>

----------------------------------------------------------------------------
(* Characters and the character classes of JavaScript regular expressions *)

NL == "\n"

\* \w : [A-Za-z0-9_]
WordChars ==
    {"a","b","c","d","e","f","g","h","i","j","k","l","m","n","o","p","q","r","s",
     "t","u","v","w","x","y","z","H","T","M","L","0","1","_"}

\* \s, as far as the alphabet of the inputs goes
SpaceChars == {" ", NL}

IsWordChar(c) == c \in WordChars

IsSpace(c) == c \in SpaceChars

\* s.substring(i - 1, i - 1 + Len(p)) === p : p occurs in s at 1-based index i
OccursAt(s, p, i) ==
    /\ i >= 1
    /\ i + Len(p) - 1 <= Len(s)
    /\ \A k \in 1..Len(p) : s[i + k - 1] = p[k]

\* String.prototype.includes
Includes(s, p) == \E i \in 1..(Len(s) - Len(p) + 1) : OccursAt(s, p, i)

\* the index (1-based) of the first character c of s at or after i, 0 if none
RECURSIVE IndexFrom(_, _, _)
IndexFrom(s, c, i) ==
    IF i > Len(s) THEN 0
    ELSE IF s[i] = c THEN i
    ELSE IndexFrom(s, c, i + 1)

\* String.prototype.split with a one-character string separator
RECURSIVE Split(_, _)
Split(s, sep) ==
    LET i == IndexFrom(s, sep, 1)
    IN  IF i = 0 THEN <<s>>
        ELSE <<SubSeq(s, 1, i - 1)>> \o Split(SubSeq(s, i + 1, Len(s)), sep)

\* the end of the run of whitespace of s that starts at i (i - 1 if s[i] is none)
RECURSIVE SpaceRunEnd(_, _)
SpaceRunEnd(s, i) ==
    IF i <= Len(s) /\ IsSpace(s[i]) THEN SpaceRunEnd(s, i + 1) ELSE i - 1

\* the index of the first whitespace character of s at or after i, 0 if none
RECURSIVE SpaceFrom(_, _)
SpaceFrom(s, i) ==
    IF i > Len(s) THEN 0
    ELSE IF IsSpace(s[i]) THEN i
    ELSE SpaceFrom(s, i + 1)

\* String.prototype.split(/\s+/)
RECURSIVE SplitSpaces(_)
SplitSpaces(s) ==
    LET i == SpaceFrom(s, 1)
    IN  IF i = 0 THEN <<s>>
        ELSE <<SubSeq(s, 1, i - 1)>>
                \o SplitSpaces(SubSeq(s, SpaceRunEnd(s, i) + 1, Len(s)))

\* Array.prototype.filter, for a sequence and a set of kept values' indices
RECURSIVE FilterNonEmpty(_)
FilterNonEmpty(ws) ==
    IF ws = <<>> THEN <<>>
    ELSE IF Head(ws) # <<>> THEN <<Head(ws)>> \o FilterNonEmpty(Tail(ws))
    ELSE FilterNonEmpty(Tail(ws))

----------------------------------------------------------------------------
(* Regular expressions of the source *)

\* whether s has a word character at index i (none outside the string)
IsWordAt(s, i) == i >= 1 /\ i <= Len(s) /\ IsWordChar(s[i])

\* \b between index i - 1 and index i
WordBoundary(s, i) == IsWordAt(s, i - 1) # IsWordAt(s, i)

\* /^\w+$/ : keyword.match(/^\w+$/)
IsBareWord(keyword) ==
    keyword # <<>> /\ \A k \in 1..Len(keyword) : IsWordChar(keyword[k])

\* the characters String.prototype.replace escapes in /[.*+?^${}()|[\]\\]/g
RegExpMeta == {".", "*", "+", "?", "^", "$", "{", "}", "(", ")", "|", "[", "]", "\\"}

\* keyword.replace(/[.*+?^${}()|[\]\\]/g, '\\$&')
RECURSIVE EscapeRegExp(_)
EscapeRegExp(keyword) ==
    IF keyword = <<>> THEN <<>>
    ELSE IF Head(keyword) \in RegExpMeta
         THEN <<"\\", Head(keyword)>> \o EscapeRegExp(Tail(keyword))
         ELSE <<Head(keyword)>> \o EscapeRegExp(Tail(keyword))

\* new RegExp(source): the alternatives of a source made of characters, escaped
\* characters and |, each alternative the literal it matches
RECURSIVE Alternatives(_, _)
Alternatives(source, cur) ==
    IF source = <<>> THEN <<cur>>
    ELSE IF Head(source) = "\\" /\ Len(source) >= 2
         THEN Alternatives(SubSeq(source, 3, Len(source)), Append(cur, source[2]))
    ELSE IF Head(source) = "|"
         THEN <<cur>> \o Alternatives(Tail(source), <<>>)
    ELSE Alternatives(Tail(source), Append(cur, Head(source)))

\* the length of the match of the alternatives at index i, -1 if none matches:
\* the first alternative that matches wins
RECURSIVE AltMatchLen(_, _, _)
AltMatchLen(s, alts, i) ==
    IF alts = <<>> THEN -1
    ELSE IF Len(Head(alts)) = 0 \/ OccursAt(s, Head(alts), i) THEN Len(Head(alts))
    ELSE AltMatchLen(s, Tail(alts), i)

\* (s.match(new RegExp(source, 'g')) || []).length from index i on: matches are
\* found left to right and do not overlap; an empty match advances by one
RECURSIVE CountRegExp(_, _, _)
CountRegExp(s, alts, i) ==
    IF i > Len(s) + 1 THEN 0
    ELSE LET n == AltMatchLen(s, alts, i)
         IN  IF n < 0 THEN CountRegExp(s, alts, i + 1)
             ELSE IF n = 0 THEN 1 + CountRegExp(s, alts, i + 1)
             ELSE 1 + CountRegExp(s, alts, i + n)

\* (s.match(new RegExp('\\b' + keyword + '\\b', 'g')) || []).length from i on
RECURSIVE CountWord(_, _, _)
CountWord(s, keyword, i) ==
    IF i + Len(keyword) - 1 > Len(s) THEN 0
    ELSE IF /\ OccursAt(s, keyword, i)
            /\ WordBoundary(s, i)
            /\ WordBoundary(s, i + Len(keyword))
         THEN 1 + CountWord(s, keyword, i + Len(keyword))
         ELSE CountWord(s, keyword, i + 1)

\* /innerHTML\s*=/ : code.match(/innerHTML\s*=/)
INNERHTML == <<"i","n","n","e","r","H","T","M","L">>

MatchesInnerHTMLAssign(s) ==
    \E i \in 1..Len(s) :
        /\ OccursAt(s, INNERHTML, i)
        /\ LET j == SpaceRunEnd(s, i + Len(INNERHTML)) + 1
           IN  j <= Len(s) /\ s[j] = "="

\* /==(?!=)/ : code.match(/==(?!=)/)
MatchesLooseEq(s) ==
    \E i \in 1..Len(s) :
        /\ OccursAt(s, <<"=", "=">>, i)
        /\ ~ (i + 2 <= Len(s) /\ s[i + 2] = "=")

----------------------------------------------------------------------------
(* tools/analyze-code.js: the command-line analyzer *)

EVAL == <<"e", "v", "a", "l", "(">>
VAR == <<"v", "a", "r", " ">>
CONSOLE_LOG == <<"c", "o", "n", "s", "o", "l", "e", ".", "l", "o", "g">>
FUNCTION == <<"f", "u", "n", "c", "t", "i", "o", "n">>

\* findLineNumber(code, pattern): the first line that includes pattern, else 1
findLineNumber(code, pattern) ==
    LET lines == Split(code, NL)
        hits == {i \in 1..Len(lines) : Includes(lines[i], pattern)}
    IN  IF hits # {} THEN CHOOSE i \in hits : \A j \in hits : i <= j
        ELSE 1

\* const complexityKeywords = ['if', 'else', 'for', 'while', 'case', '&&', '||']
complexityKeywords ==
    << <<"i","f">>, <<"e","l","s","e">>, <<"f","o","r">>, <<"w","h","i","l","e">>,
       <<"c","a","s","e">>, <<"&","&">>, <<"|","|">> >>

\* the number of matches of one keyword: the body of the forEach callback
keywordMatches(code, keyword) ==
    LET escapedKeyword == EscapeRegExp(keyword)
    IN  IF IsBareWord(keyword)
        THEN CountWord(code, Alternatives(escapedKeyword, <<>>)[1], 1)
        ELSE CountRegExp(code, Alternatives(escapedKeyword, <<>>), 1)

RECURSIVE SumMatches(_, _, _)
SumMatches(code, keywords, k) ==
    IF k > Len(keywords) THEN 0
    ELSE keywordMatches(code, keywords[k]) + SumMatches(code, keywords, k + 1)

\* a plausible slip of calculateComplexity: let complexity = 0
calculateComplexityFromZero(code) == SumMatches(code, complexityKeywords, 1)

\* calculateComplexity(code) of the command-line tool
calculateComplexity(code) == 1 + SumMatches(code, complexityKeywords, 1)

\* getComplexityRating(complexity)
getComplexityRating(complexity) ==
    IF complexity <= 5 THEN "simple"
    ELSE IF complexity <= 10 THEN "moderate"
    ELSE IF complexity <= 20 THEN "complex"
    ELSE "very_complex"

\* the end of the run of word characters of s that starts at i (i - 1 if none)
RECURSIVE WordRunEnd(_, _)
WordRunEnd(s, i) ==
    IF i <= Len(s) /\ IsWordChar(s[i]) THEN WordRunEnd(s, i + 1) ELSE i - 1

\* the end of the match of /function\s+\w+/ at i, 0 if it does not match there
FunctionDeclEnd(s, i) ==
    IF ~ OccursAt(s, FUNCTION, i) THEN 0
    ELSE LET sp == SpaceRunEnd(s, i + Len(FUNCTION))
             w == WordRunEnd(s, sp + 1)
         IN  IF sp >= i + Len(FUNCTION) /\ w >= sp + 1 THEN w ELSE 0

\* the end of the match of /\w+\s*=\s*\(/ at i, 0 if it does not match there
AssignParenEnd(s, i) ==
    LET w == WordRunEnd(s, i)
        eq == SpaceRunEnd(s, w + 1) + 1
        par == SpaceRunEnd(s, eq + 1) + 1
    IN  IF /\ w >= i
           /\ eq <= Len(s) /\ s[eq] = "="
           /\ par <= Len(s) /\ s[par] = "("
        THEN par ELSE 0

\* the end of the match of /=>\s*{/ at i, 0 if it does not match there
ArrowBodyEnd(s, i) ==
    LET br == SpaceRunEnd(s, i + 2) + 1
    IN  IF OccursAt(s, <<"=", ">">>, i) /\ br <= Len(s) /\ s[br] = "{"
        THEN br ELSE 0

\* (code.match(re) || []).length for the three patterns, by the end of a match
RECURSIVE CountEnds(_, _, _)
CountEnds(s, which, i) ==
    IF i > Len(s) THEN 0
    ELSE LET e == CASE which = "function" -> FunctionDeclEnd(s, i)
                    [] which = "assign" -> AssignParenEnd(s, i)
                    [] OTHER -> ArrowBodyEnd(s, i)
         IN  IF e = 0 THEN CountEnds(s, which, i + 1)
             ELSE 1 + CountEnds(s, which, e + 1)

\* a plausible slip of functionCount: an arrow function assigned to a variable is
\* counted once
functionCountOnce(code) ==
    LET assigned == CountEnds(code, "assign", 1)
        arrows == CountEnds(code, "arrow", 1)
    IN  CountEnds(code, "function", 1)
            + (IF assigned >= arrows THEN assigned ELSE arrows)

functionCount(code) ==
    CountEnds(code, "function", 1) + CountEnds(code, "assign", 1)
        + CountEnds(code, "arrow", 1)

\* issues.filter((i) => i.severity === sev).length
RECURSIVE CountSeverity(_, _)
CountSeverity(issues, sev) ==
    IF issues = <<>> THEN 0
    ELSE (IF Head(issues).severity = sev THEN 1 ELSE 0)
            + CountSeverity(Tail(issues), sev)

\* Math.round(a / b) for a >= 0, b > 0: halves round up
RoundDiv(a, b) == (2 * a + b) \div (2 * b)

\* a plausible slip of the eval rule: one Issue for every eval( of the code
evalIssuePerOccurrence(code) ==
    LET lines == Split(code, NL)
        issue == [severity |-> "high", line |-> findLineNumber(code, EVAL),
                  message |-> "Dangerous use of eval() detected - security risk",
                  category |-> "security"]
    IN  [k \in 1..CountRegExp(code, <<EVAL>>, 1) |-> issue]

\* the five rules of analyzeCode, in the order of the source; each pushes one Issue
evalIssue(code) ==
    IF Includes(code, EVAL)
    THEN << [severity |-> "high", line |-> findLineNumber(code, EVAL),
             message |-> "Dangerous use of eval() detected - security risk",
             category |-> "security"] >>
    ELSE <<>>

\* a plausible slip of the innerHTML rule: the line is searched for 'innerHTML ='
innerHTMLIssueAssignSearch(code) ==
    IF MatchesInnerHTMLAssign(code)
    THEN << [severity |-> "medium",
             line |-> findLineNumber(code, INNERHTML \o <<" ", "=">>),
             message |-> "Direct innerHTML assignment can lead to XSS vulnerabilities",
             category |-> "security"] >>
    ELSE <<>>

innerHTMLIssue(code) ==
    IF MatchesInnerHTMLAssign(code)
    THEN << [severity |-> "medium", line |-> findLineNumber(code, INNERHTML),
             message |-> "Direct innerHTML assignment can lead to XSS vulnerabilities",
             category |-> "security"] >>
    ELSE <<>>

varIssue(code) ==
    IF Includes(code, VAR)
    THEN << [severity |-> "low", line |-> findLineNumber(code, VAR),
             message |-> "Use let or const instead of var for better scoping",
             category |-> "best-practices"] >>
    ELSE <<>>

consoleLogIssue(code) ==
    IF Includes(code, CONSOLE_LOG)
    THEN << [severity |-> "info", line |-> findLineNumber(code, CONSOLE_LOG),
             message |-> "Remove console.log statements before production",
             category |-> "best-practices"] >>
    ELSE <<>>

looseEqIssue(code) ==
    IF MatchesLooseEq(code)
    THEN << [severity |-> "low", line |-> findLineNumber(code, <<"=", "=">>),
             message |-> "Use === instead of == for strict equality",
             category |-> "best-practices"] >>
    ELSE <<>>

\* the issues of a sequence whose line is n, in their order
RECURSIVE IssuesOfLine(_, _)
IssuesOfLine(issues, n) ==
    IF issues = <<>> THEN <<>>
    ELSE IF Head(issues).line = n THEN <<Head(issues)>> \o IssuesOfLine(Tail(issues), n)
    ELSE IssuesOfLine(Tail(issues), n)

RECURSIVE IssuesFromLine(_, _, _)
IssuesFromLine(issues, n, last) ==
    IF n > last THEN <<>>
    ELSE IssuesOfLine(issues, n) \o IssuesFromLine(issues, n + 1, last)

\* a plausible slip of analyzeCode: issues.sort((a, b) => a.line - b.line)
detectIssuesByLine(code) ==
    IssuesFromLine(evalIssue(code) \o innerHTMLIssue(code) \o varIssue(code)
                       \o consoleLogIssue(code) \o looseEqIssue(code),
                   1, Len(Split(code, NL)))

\* the issues array of analyzeCode after the five rules
detectIssues(code) ==
    evalIssue(code) \o innerHTMLIssue(code) \o varIssue(code)
        \o consoleLogIssue(code) \o looseEqIssue(code)

\* the Report analyzeCode returns for the issues it found; now is new Date()
buildReport(code, language, now, issues) ==
    LET lines == Len(Split(code, NL))
        chars == Len(code)
        words == Len(FilterNonEmpty(SplitSpaces(code)))
        complexity == calculateComplexity(code)
    IN  [language |-> language,
         metrics |-> [lines |-> lines,
                      characters |-> chars,
                      words |-> words,
                      complexity |-> complexity,
                      complexity_rating |-> getComplexityRating(complexity),
                      function_count |-> functionCount(code),
                      average_line_length |-> RoundDiv(chars, lines)],
         issues |-> issues,
         summary |-> [total_issues |-> Len(issues),
                      high |-> CountSeverity(issues, "high"),
                      medium |-> CountSeverity(issues, "medium"),
                      low |-> CountSeverity(issues, "low"),
                      info |-> CountSeverity(issues, "info")],
         analyzed_at |-> now]

\* a plausible slip of analyzeCode: const issues = [] at module level, so that the
\* issues of the calls before stay in the array
analyzeCodeSharedIssues(code, language, now) ==
    LET before == IF cliCalls = <<>> THEN <<>>
                  ELSE cliCalls[Len(cliCalls)].report.issues
    IN  buildReport(code, language, now, before \o detectIssues(code))

\* a plausible slip of analyzeCode: code whose parentheses do not pair is refused
analyzeCodeRefusing(code, language, now) ==
    IF Cardinality({i \in 1..Len(code) : code[i] = "("})
          # Cardinality({i \in 1..Len(code) : code[i] = ")"})
    THEN [error |-> "Invalid code"]
    ELSE buildReport(code, language, now, detectIssues(code))

\* analyzeCode(code, language) of the command-line tool: const issues = [], the
\* five rules, the metrics and the Report
analyzeCode(code, language, now) ==
    buildReport(code, language, now, detectIssues(code))

\* a plausible slip of main: process.exit(result.summary.high > 0 ? 1 : 0), as
\* validate-code.js exits by result.valid
mainExitStatusByIssues(result) == IF result.summary.high > 0 THEN 1 ELSE 0

\* the status main exits with after it has printed the result: process.exit(0)
mainExitStatus(result) == 0

\* main() of analyze-code.js on process.argv.slice(2): what the run leaves behind.
\* argv[1] is the code and argv[2] the language, undefined when absent; analyzeCode
\* throws for no string, so the catch branch is not taken
main(argv, now) ==
    LET hasCode == Len(argv) >= 1 /\ argv[1] # <<>>
        language == IF Len(argv) >= 2 /\ argv[2] # "" THEN argv[2] ELSE "javascript"
    IN  IF ~ hasCode
        THEN [argv |-> argv, status |-> 1, stdout |-> <<>>,
              stderr |-> << [error |-> "Code argument is required"] >>]
        ELSE LET result == analyzeCode(argv[1], language, now)
             IN  [argv |-> argv, status |-> mainExitStatus(result),
                  stdout |-> <<result>>, stderr |-> <<>>]

----------------------------------------------------------------------------
(* services/code-processor/server.js: the analyzer of the HTTP service *)

\* const keywords = ['if', 'else', 'for', 'while', 'case']
serverKeywords ==
    << <<"i","f">>, <<"e","l","s","e">>, <<"f","o","r">>, <<"w","h","i","l","e">>,
       <<"c","a","s","e">> >>

RECURSIVE SumWordMatches(_, _, _)
SumWordMatches(code, keywords, k) ==
    IF k > Len(keywords) THEN 0
    ELSE CountWord(code, keywords[k], 1) + SumWordMatches(code, keywords, k + 1)

\* calculateComplexity(code) of the service
serverCalculateComplexity(code) == 1 + SumWordMatches(code, serverKeywords, 1)

\* the codes of the requests received so far
CodesReceived ==
    {requests[r].body.code.string :
        r \in {q \in DOMAIN requests : /\ requests[q].pc # "none"
                                       /\ "code" \in DOMAIN requests[q].body
                                       /\ requests[q].body.code.type = "string"}}

\* an issues array kept at module level and never emptied: every call reports
\* the issues of the codes received before it too
serverDetectIssuesShared(code) ==
    IF \E c \in CodesReceived \cup {code} : Includes(c, EVAL)
    THEN << [severity |-> "high", message |-> "Use of eval() detected",
             category |-> "security"] >>
    ELSE <<>>

\* the issues array of the service's analyzeCode: the eval rule alone, no line
serverDetectIssues(code) ==
    IF Includes(code, EVAL)
    THEN << [severity |-> "high", message |-> "Use of eval() detected",
             category |-> "security"] >>
    ELSE <<>>

\* analyzeCode(code) of the service
serverAnalyzeCode(code) ==
    LET lines == Len(Split(code, NL))
        complexity == serverCalculateComplexity(code)
        issues == serverDetectIssues(code)
    IN  [metrics |-> [lines |-> lines,
                      complexity |-> complexity,
                      rating |-> IF complexity <= 10 THEN "simple" ELSE "complex"],
         issues |-> issues,
         summary |-> [total_issues |-> Len(issues),
                      high |-> CountSeverity(issues, "high")]]

----------------------------------------------------------------------------
(* services/code-processor/server.js: the handlers of the HTTP service *)

\* the values of the fields of a JSON body, each with its JavaScript type; an
\* absent field is undefined
Str(s) == [type |-> "string", string |-> s]
Num(n) == [type |-> "number", number |-> n]
Arr(a) == [type |-> "array", array |-> a]
Obj(o) == [type |-> "object", object |-> o]
Null == [type |-> "null"]

Has(body, field) == field \in DOMAIN body

\* !code
codeMissing(body) ==
    \/ ~ Has(body, "code")
    \/ body.code.type = "null"
    \/ body.code.type = "string" /\ body.code.string = <<>>
    \/ body.code.type = "number" /\ body.code.number = 0

\* the outcome of a call: it returns a value or throws an Error with a message
Returned(value) == [threw |-> FALSE, value |-> value]
Threw(message) == [threw |-> TRUE, message |-> message]

\* a response: res.status(status).json(body)
Response(status, body) == [status |-> status, body |-> body]

\* new Function(code) on the codes the requests carry: the bodies the parser
\* accepts; it throws a SyntaxError on the others
AcceptedFunctionBodies ==
    { <<"e", "v", "a", "l", "(", "x", ")">>,
      <<"v", "a", "r", " ", "x">>,
      <<"'", "{", "'">> }

newFunctionAccepts(code) == code \in AcceptedFunctionBodies

\* (code.match(/c/g) || []).length for a single character c
CountChar(code, c) == Cardinality({i \in 1..Len(code) : code[i] = c})

\* validateCode(code) on the value of the body: it catches what it throws
validateCode(code) ==
    IF code.type # "string"
    THEN [valid |-> FALSE,
          errors |-> << [type |-> "syntax", message |-> "code.match is not a function"] >>]
    ELSE IF ~ newFunctionAccepts(code.string)
    THEN [valid |-> FALSE,
          errors |-> << [type |-> "syntax", message |-> "SyntaxError"] >>]
    ELSE LET errors == IF CountChar(code.string, "{") # CountChar(code.string, "}")
                       THEN << [type |-> "syntax", message |-> "Mismatched braces"] >>
                       ELSE <<>>
         IN  [valid |-> errors = <<>>, errors |-> errors]

\* code.trim(): s from its i-th character on, without the white space in front
RECURSIVE TrimStart(_, _)
TrimStart(s, i) ==
    IF i > Len(s) THEN <<>>
    ELSE IF IsSpace(s[i]) THEN TrimStart(s, i + 1)
    ELSE SubSeq(s, i, Len(s))

RECURSIVE TrimEnd(_)
TrimEnd(s) ==
    IF s = <<>> THEN <<>>
    ELSE IF IsSpace(s[Len(s)]) THEN TrimEnd(SubSeq(s, 1, Len(s) - 1))
    ELSE s

Trim(s) == TrimEnd(TrimStart(s, 1))

\* s.replace(/([^;{}\s])(\n|$)/g, '$1;$2') from the i-th character on
RECURSIVE AddSemicolons(_, _)
AddSemicolons(s, i) ==
    IF i > Len(s) THEN <<>>
    ELSE LET ends == i = Len(s) \/ s[i + 1] = NL
             open == s[i] \notin {";", "{", "}"} /\ ~ IsSpace(s[i])
         IN  (IF open /\ ends THEN <<s[i], ";">> ELSE <<s[i]>>) \o AddSemicolons(s, i + 1)

\* formatCode(code, options) on a string and an options object
formatCode(code, options) ==
    LET trimmed == Trim(code)
        formatted ==
            IF "addSemicolons" \in DOMAIN options /\ options.addSemicolons = FALSE
            THEN trimmed
            ELSE AddSemicolons(trimmed, 1)
    IN  [original |-> code, formatted |-> formatted, changed |-> code # formatted]

\* generateSuggestions with the threshold of the rating, complexity >= 10
generateSuggestionsFromTen(analysis) ==
    LET high == SelectSeq(analysis.issues, LAMBDA issue : issue.severity = "high")
    IN  (IF analysis.metrics.complexity >= 10
         THEN << [type |-> "refactoring",
                  message |-> "Consider breaking down complex functions into smaller ones"] >>
         ELSE <<>>)
        \o [i \in DOMAIN high |->
              [type |-> "security", fixes |-> <<high[i].category, high[i].message>>]]

\* generateSuggestions(analysis); the message of a security suggestion is
\* `Fix ${issue.category} issue: ${issue.message}`, kept as its two parts
generateSuggestions(analysis) ==
    LET high == SelectSeq(analysis.issues, LAMBDA issue : issue.severity = "high")
    IN  (IF analysis.metrics.complexity > 10
         THEN << [type |-> "refactoring",
                  message |-> "Consider breaking down complex functions into smaller ones"] >>
         ELSE <<>>)
        \o [i \in DOMAIN high |->
              [type |-> "security", fixes |-> <<high[i].category, high[i].message>>]]

\* analyzeCode(code) called on the value of the body: code.split throws on a number
callAnalyzeCode(code) ==
    IF code.type = "string" THEN Returned(serverAnalyzeCode(code.string))
    ELSE Threw("code.split is not a function")

\* formatCode(code, options) called on the values of the body
callFormatCode(code, options) ==
    IF code.type # "string" THEN Threw("code.trim is not a function")
    ELSE IF options.type # "object"
    THEN Threw("Cannot read properties of null (reading 'addSemicolons')")
    ELSE Returned(formatCode(code.string, options.object))

\* what a handler has done when it ends: the responses it sent and the calls it made
Handled(sent, calls) == [sent |-> sent, calls |-> calls]

\* a record with the fields of the named keys
Pick(keys, all) == [k \in keys |-> all[k]]

\* app.get('/health')
healthHandler(now) ==
    Handled(<< Response(200, [status |-> "healthy", service |-> "code-processor",
                              uptime |-> now, timestamp |-> now]) >>, <<>>)

\* app.post('/process')
processHandler(body, now) ==
    IF codeMissing(body)
    THEN Handled(<< Response(400, [error |-> "Code is required"]) >>, <<>>)
    ELSE
    LET operations == IF Has(body, "operations") THEN body.operations
                      ELSE Arr(<<"validate", "analyze">>)
    IN  IF operations.type # "array"
        THEN Handled(<< Response(500, [error |-> "operations.includes is not a function",
                                       type |-> "ProcessError"]) >>, <<>>)
        ELSE
        LET requested == {operations.array[i] : i \in DOMAIN operations.array}
            validate == "validate" \in requested
            analyze == "analyze" \in requested
            format == "format" \in requested
            analysis == callAnalyzeCode(body.code)
            formatting == callFormatCode(body.code, Obj(<<>>))
            calls == (IF validate THEN <<"validateCode">> ELSE <<>>)
                        \o (IF analyze THEN <<"analyzeCode">> ELSE <<>>)
        IN  IF analyze /\ analysis.threw
            THEN Handled(<< Response(500, [error |-> analysis.message,
                                           type |-> "ProcessError"]) >>, calls)
            ELSE IF format /\ formatting.threw
            THEN Handled(<< Response(500, [error |-> formatting.message,
                                           type |-> "ProcessError"]) >>,
                         calls \o <<"formatCode">>)
            ELSE
            LET all == [validation |-> validateCode(body.code),
                        analysis |-> IF analyze THEN analysis.value ELSE <<>>,
                        formatting |-> IF format THEN formatting.value ELSE <<>>]
                keys == (IF validate THEN {"validation"} ELSE {})
                            \cup (IF analyze THEN {"analysis"} ELSE {})
                            \cup (IF format THEN {"formatting"} ELSE {})
            IN  Handled(<< Response(200, [results |-> Pick(keys, all),
                                          operations_completed |-> operations.array,
                                          processed_at |-> now]) >>,
                        calls \o (IF format THEN <<"formatCode">> ELSE <<>>))

\* app.post('/analyze') with a marker of the deep mode in its result
analyzeHandlerDeepMarked(body) ==
    LET analysis == callAnalyzeCode(body.code)
        suggest == ~ Has(body, "include_suggestions") \/ body.include_suggestions
        deep == Has(body, "deep") /\ body.deep
        fields == DOMAIN analysis.value \cup (IF suggest THEN {"suggestions"} ELSE {})
                      \cup (IF deep THEN {"deep"} ELSE {})
    IN  IF analysis.threw
        THEN Handled(<< Response(500, [error |-> analysis.message,
                                       type |-> "AnalysisError"]) >>, <<"analyzeCode">>)
        ELSE Handled(<< Response(200,
                          [k \in fields |->
                              IF k = "suggestions" THEN generateSuggestions(analysis.value)
                              ELSE IF k = "deep" THEN TRUE
                              ELSE analysis.value[k]]) >>,
                     <<"analyzeCode">>)

\* app.post('/analyze') that lets the exception of analyzeCode escape: no response
analyzeHandlerUncaught(body) ==
    LET analysis == callAnalyzeCode(body.code)
        suggest == ~ Has(body, "include_suggestions") \/ body.include_suggestions
        fields == DOMAIN analysis.value \cup (IF suggest THEN {"suggestions"} ELSE {})
    IN  IF analysis.threw
        THEN Handled(<<>>, <<"analyzeCode">>)
        ELSE Handled(<< Response(200,
                          [k \in fields |->
                              IF k = "suggestions" THEN generateSuggestions(analysis.value)
                              ELSE analysis.value[k]]) >>,
                     <<"analyzeCode">>)

\* app.post('/analyze') from const analysis = analyzeCode(code) on: the part
\* after the check of the code and after the delay of the deep mode
analyzeHandler(body) ==
    LET analysis == callAnalyzeCode(body.code)
        suggest == ~ Has(body, "include_suggestions") \/ body.include_suggestions
        fields == DOMAIN analysis.value \cup (IF suggest THEN {"suggestions"} ELSE {})
    IN  IF analysis.threw
        THEN Handled(<< Response(500, [error |-> analysis.message,
                                       type |-> "AnalysisError"]) >>, <<"analyzeCode">>)
        ELSE Handled(<< Response(200,
                          [k \in fields |->
                              IF k = "suggestions" THEN generateSuggestions(analysis.value)
                              ELSE analysis.value[k]]) >>,
                     <<"analyzeCode">>)

\* app.post('/format')
formatHandler(body) ==
    IF codeMissing(body)
    THEN Handled(<< Response(400, [error |-> "Code is required"]) >>, <<>>)
    ELSE LET options == IF Has(body, "options") THEN body.options ELSE Obj(<<>>)
             result == callFormatCode(body.code, options)
         IN  IF result.threw
             THEN Handled(<< Response(500, [error |-> result.message,
                                            type |-> "FormatError"]) >>, <<"formatCode">>)
             ELSE Handled(<< Response(200, result.value) >>, <<"formatCode">>)

----------------------------------------------------------------------------
(* The inputs: strings over the substrings the rules look for *)

\* the pieces of the enumerated inputs
Tokens ==
    { EVAL, INNERHTML, VAR, <<"i","f">>, <<"&","&">>, <<"=">>, <<" ">>, <<NL>>,
      <<"x">> }

\* the strings of at most n tokens
RECURSIVE TokenCodes(_)
TokenCodes(n) ==
    IF n = 0 THEN {<<>>}
    ELSE LET shorter == TokenCodes(n - 1)
         IN  shorter \cup {c \o t : c \in shorter, t \in Tokens}

\* the decision keywords, each a word of its own
KeywordTokens ==
    << <<"i","f"," ">>, <<"e","l","s","e"," ">>, <<"f","o","r"," ">>,
       <<"w","h","i","l","e"," ">>, <<"c","a","s","e"," ">>, <<"&","&">>,
       <<"|","|">> >>

\* t repeated n times
RECURSIVE Repeat(_, _)
Repeat(t, n) == IF n = 0 THEN <<>> ELSE t \o Repeat(t, n - 1)

\* the strings of at most budget keywords, the keywords from the k-th on, in order
RECURSIVE KeywordCodes(_, _)
KeywordCodes(k, budget) ==
    IF k > Len(KeywordTokens) THEN {<<>>}
    ELSE UNION { {Repeat(KeywordTokens[k], n) \o rest :
                    rest \in KeywordCodes(k + 1, budget - n)} : n \in 0..budget }

\* long runs of one keyword, for the thresholds of the ratings
RepeatCodes ==
    {Repeat(<<"&","&">>, n) : n \in 0..MaxRepeat}
        \cup {Repeat(<<"i","f"," ">>, n) : n \in 0..MaxRepeat}

\* the lines of the two-line inputs: the pattern of each rule, and its near misses
Fragments ==
    { <<>>,
      <<"x">>,
      <<"e", "v", "a", "l", "(">>,
      <<"e", "v", "a", "l">>,
      <<"x", ".", "i", "n", "n", "e", "r", "H", "T", "M", "L", ";">>,
      <<"x", ".", "i", "n", "n", "e", "r", "H", "T", "M", "L", " ", "=", " ", "1">>,
      <<"i", "n", "n", "e", "r", "H", "T", "M", "L", "=">>,
      <<"v", "a", "r", " ", "x">>,
      <<"v", "a", "r">>,
      <<"c", "o", "n", "s", "o", "l", "e", ".", "l", "o", "g">>,
      <<"c", "o", "n", "s", "o", "l", "e">>,
      <<"a", " ", "=", "=", " ", "b">>,
      <<"a", " ", "=", "=", "=", " ", "b">>,
      <<"a", " ", "|", "|", " ", "b">> }

TwoLineCodes == {a \o <<NL>> \o b : a \in Fragments, b \in Fragments}

\* the inputs the specification and the test script name
LOOSE_EQ_CODE == <<"i", "f", " ", "(", "a", " ", "=", "=", " ", "b", ")", " ", "{", "}">>
STRICT_EQ_CODE == <<"i", "f", " ", "(", "a", " ", "=", "=", "=", " ", "b", ")", " ", "{", "}">>
EVAL_CODE == <<"f", "u", "n", "c", "t", "i", "o", "n", " ", "t", "e", "s", "t", "(", ")", " ", "{", " ", "e", "v", "a", "l", "(", "'", "x", "'", ")", ";", " ", "}">>
TEST_CODE == <<"f", "u", "n", "c", "t", "i", "o", "n", " ", "t", "e", "s", "t", "(", ")", " ", "{", " ", "v", "a", "r", " ", "x", " ", "=", " ", "1", ";", " ", "e", "v", "a", "l", "(", "\"", "t", "e", "s", "t", "\"", ")", ";", " ", "r", "e", "t", "u", "r", "n", " ", "x", ";", " ", "}">>

SampleCodes == {LOOSE_EQ_CODE, STRICT_EQ_CODE, EVAL_CODE, TEST_CODE}

Inputs ==
    TokenCodes(MaxTokens) \cup KeywordCodes(1, MaxKeywords) \cup RepeatCodes
        \cup TwoLineCodes \cup SampleCodes

\* the pieces of the inputs that declare functions
FunctionPieces ==
    { <<"f", "u", "n", "c", "t", "i", "o", "n", " ", "f">>,
      <<"f", "u", "n", "c", "t", "i", "o", "n">>,
      <<"f", " ", "=", " ", "(">>,
      <<")", " ", "=", ">", " ", "{">>,
      <<"g", "=", "(">>,
      <<"=", ">">>,
      <<"{">>,
      <<" ">>,
      <<NL>> }

\* the strings of at most n pieces
RECURSIVE FunctionCodes(_)
FunctionCodes(n) ==
    IF n = 0 THEN {<<>>}
    ELSE LET shorter == FunctionCodes(n - 1)
         IN  shorter \cup {c \o t : c \in shorter, t \in FunctionPieces}

\* a variable assigned an arrow function with a block body: "f = () => {"
ARROW_ASSIGN_CODE == <<"f", " ", "=", " ", "(", ")", " ", "=", ">", " ", "{">>

\* the code of the calls in between: "var x\neval("
OTHER_CODE == VAR \o <<"x", NL>> \o EVAL

\* the inputs of the repeated calls
RepeatInputs == TokenCodes(1) \cup {LOOSE_EQ_CODE}

----------------------------------------------------------------------------
(* The calls of the two analyzers *)

\* no request has arrived
NoRequests == [r \in 1..MaxRequests |-> [pc |-> "none"]]

Init ==
    /\ input \in Inputs
    /\ clock = 0
    /\ cliCalls = <<>>
    /\ httpCalls = <<>>
    /\ cliRun = <<>>
    /\ requests = NoRequests

\* const result = analyzeCode(code, language) in the command-line tool
CliAnalyze(c) ==
    /\ cliCalls' = Append(cliCalls,
                          [code |-> c, report |-> analyzeCode(c, "javascript", clock)])
    /\ clock' = clock + 1
    /\ UNCHANGED <<input, httpCalls, cliRun, requests>>

\* const analysis = analyzeCode(code) in the service
HttpAnalyze(c) ==
    /\ httpCalls' = Append(httpCalls, [code |-> c, report |-> serverAnalyzeCode(c)])
    /\ UNCHANGED <<input, clock, cliCalls, cliRun, requests>>

\* each path analyses the input once
Next ==
    \/ cliCalls = <<>> /\ CliAnalyze(input)
    \/ httpCalls = <<>> /\ HttpAnalyze(input)

Spec == Init /\ [][Next]_vars

\* repeated calls: the input again and again, calls on another input in between
InitRepeat ==
    /\ input \in RepeatInputs
    /\ clock = 0
    /\ cliCalls = <<>>
    /\ httpCalls = <<>>
    /\ cliRun = <<>>
    /\ requests = NoRequests

NextRepeat ==
    \/ \E c \in {input, OTHER_CODE} : Len(cliCalls) < MaxCalls /\ CliAnalyze(c)
    \/ \E c \in {input, OTHER_CODE} : Len(httpCalls) < MaxCalls /\ HttpAnalyze(c)

SpecRepeat == InitRepeat /\ [][NextRepeat]_vars

\* one call of each analyzer on an input that declares functions
InitFunctions ==
    /\ input \in FunctionCodes(MaxTokens)
    /\ clock = 0
    /\ cliCalls = <<>>
    /\ httpCalls = <<>>
    /\ cliRun = <<>>
    /\ requests = NoRequests

SpecFunctions == InitFunctions /\ [][Next]_vars

\* node analyze-code.js [code [language]]: one run of the command-line tool
RunMain(argv) ==
    /\ cliRun = <<>>
    /\ cliRun' = << main(argv, clock) >>
    /\ clock' = IF cliRun'[1].status = 0 THEN clock + 1 ELSE clock
    /\ UNCHANGED <<input, cliCalls, httpCalls, requests>>

\* the tool is run without arguments, with the input, or with the input and a language
NextMain ==
    \/ RunMain(<<>>)
    \/ RunMain(<<input>>)
    \/ RunMain(<<input, "typescript">>)

SpecMain == Init /\ [][NextMain]_vars

\* the codes of the requests: "eval(x)", "var x" and the string literal '{'
CODE_A == <<"e", "v", "a", "l", "(", "x", ")">>
CODE_B == <<"v", "a", "r", " ", "x">>
CODE_C == <<"'", "{", "'">>

\* a body with none of the fields the handlers read: {"language": "js"}
OTHER_BODY == [language |-> Str(<<"j", "s">>)]

\* the requests the service receives: every route, every flag, and the bodies
\* that end in each status
ServiceRequests ==
    { [route |-> "health", body |-> OTHER_BODY],
      [route |-> "analyze", body |-> [code |-> Str(CODE_A)]],
      [route |-> "analyze", body |-> [code |-> Str(CODE_A), deep |-> TRUE]],
      [route |-> "analyze",
       body |-> [code |-> Str(CODE_A), deep |-> TRUE, include_suggestions |-> FALSE]],
      [route |-> "analyze", body |-> [code |-> Str(CODE_A), include_suggestions |-> FALSE]],
      [route |-> "analyze", body |-> [code |-> Str(CODE_B), deep |-> TRUE]],
      [route |-> "analyze", body |-> [deep |-> TRUE]],
      [route |-> "analyze", body |-> [code |-> Num(5), deep |-> TRUE]],
      [route |-> "process", body |-> [code |-> Str(CODE_A)]],
      [route |-> "process",
       body |-> [code |-> Str(CODE_B), operations |-> Arr(<<"format", "lint">>)]],
      [route |-> "process",
       body |-> [code |-> Str(CODE_C), operations |-> Arr(<<"validate">>)]],
      [route |-> "process", body |-> [code |-> Str(<<>>)]],
      [route |-> "process", body |-> [code |-> Str(CODE_A), operations |-> Num(5)]],
      [route |-> "format", body |-> [code |-> Str(CODE_B)]],
      [route |-> "format", body |-> [code |-> Str(CODE_A), options |-> Null]],
      [route |-> "format", body |-> OTHER_BODY] }

\* the requests waiting in the delay of the deep mode
Delayed == {q \in 1..MaxRequests : requests[q].pc = "delay"}

\* a request arrives: express.json() has parsed its body, the logging middleware
\* has called next(); the requests are numbered as they arrive
Arrive(r, request) ==
    /\ requests[r].pc = "none"
    /\ \A q \in 1..(r - 1) : requests[q].pc # "none"
    /\ requests' = [requests EXCEPT ![r] =
                       [pc |-> "arrived", route |-> request.route, body |-> request.body,
                        sent |-> <<>>, calls |-> <<>>, behind |-> Delayed]]
    /\ UNCHANGED <<input, clock, cliCalls, httpCalls, cliRun>>

\* a busy wait in place of the timer: no handler runs while a request waits
canHandleBlocked(r) == requests[r].pc = "arrived" /\ Delayed = {}

\* the event loop runs the handler of an arrived request; a request that awaits
\* its timer does not hold the loop
canHandle(r) == requests[r].pc = "arrived"

\* the request has ended: what its handler left behind
Ended(request, handled) ==
    [request EXCEPT !.pc = "done",
                    !.sent = request.sent \o handled.sent,
                    !.calls = request.calls \o handled.calls]

\* the handler of a request runs up to its response or up to its await
Handle(r) ==
    LET request == requests[r]
        route == request.route
        body == request.body
        deep == Has(body, "deep") /\ body.deep
    IN  /\ canHandle(r)
        /\ requests' = [requests EXCEPT ![r] =
              CASE route = "health" -> Ended(request, healthHandler(clock))
                [] route = "process" -> Ended(request, processHandler(body, clock))
                [] route = "format" -> Ended(request, formatHandler(body))
                [] route = "analyze" /\ codeMissing(body) ->
                      Ended(request,
                            Handled(<< Response(400, [error |-> "Code is required"]) >>, <<>>))
                [] route = "analyze" /\ ~ codeMissing(body) /\ deep ->
                      [request EXCEPT !.pc = "delay",
                                      !.calls = request.calls \o <<"setTimeout">>]
                [] route = "analyze" /\ ~ codeMissing(body) /\ ~ deep ->
                      Ended(request, analyzeHandler(body))]
        /\ clock' = IF route \in {"health", "process"}
                       /\ requests'[r].sent[1].status = 200
                    THEN clock + 1 ELSE clock
        /\ UNCHANGED <<input, cliCalls, httpCalls, cliRun>>

\* the timer of the deep mode fires and the handler goes on after its await
TimerFires(r) ==
    /\ requests[r].pc = "delay"
    /\ requests' = [requests EXCEPT ![r] = Ended(requests[r], analyzeHandler(requests[r].body))]
    /\ UNCHANGED <<input, clock, cliCalls, httpCalls, cliRun>>

InitService ==
    /\ input = <<>>
    /\ clock = 0
    /\ cliCalls = <<>>
    /\ httpCalls = <<>>
    /\ cliRun = <<>>
    /\ requests = NoRequests

NextService ==
    \/ \E r \in 1..MaxRequests, request \in ServiceRequests : Arrive(r, request)
    \/ \E r \in 1..MaxRequests : Handle(r)
    \/ \E r \in 1..MaxRequests : TimerFires(r)

SpecService == InitService /\ [][NextService]_vars

\* the requests whose answers are awaited: every status, with and without delay
AnswerRequests ==
    { [route |-> "analyze", body |-> [code |-> Str(CODE_A), deep |-> TRUE]],
      [route |-> "analyze", body |-> [deep |-> TRUE]],
      [route |-> "analyze", body |-> [code |-> Num(5), deep |-> TRUE]],
      [route |-> "process", body |-> [code |-> Str(CODE_B)]],
      [route |-> "process", body |-> [code |-> Str(<<>>)]],
      [route |-> "format", body |-> [code |-> Str(CODE_B)]],
      [route |-> "format", body |-> [code |-> Str(CODE_B), options |-> Null]] }

NextAnswer ==
    \/ \E r \in 1..MaxRequests, request \in AnswerRequests : Arrive(r, request)
    \/ \E r \in 1..MaxRequests : Handle(r)
    \/ \E r \in 1..MaxRequests : TimerFires(r)

\* the event loop does not stay idle while a handler is ready or a timer is due
Fairness == WF_vars(\E r \in 1..MaxRequests : Handle(r) \/ TimerFires(r))

SpecAnswer == InitService /\ [][NextAnswer]_vars /\ Fairness

\* the codes of the single /analyze request: below and above the threshold of
\* the suggestions, with and without eval(
AnalyzeInputs ==
    TokenCodes(MaxTokens - 1) \cup RepeatCodes \cup SampleCodes
        \cup {EVAL \o c : c \in RepeatCodes}

InitAnalyze ==
    /\ input \in AnalyzeInputs
    /\ clock = 0
    /\ cliCalls = <<>>
    /\ httpCalls = <<>>
    /\ cliRun = <<>>
    /\ requests = NoRequests

\* one request to /analyze with the input as its code, with every flag
NextAnalyze ==
    \/ \E deep \in BOOLEAN, suggest \in BOOLEAN :
          Arrive(1, [route |-> "analyze",
                     body |-> [code |-> Str(input), deep |-> deep,
                               include_suggestions |-> suggest]])
    \/ Handle(1)
    \/ TimerFires(1)

SpecAnalyze == InitAnalyze /\ [][NextAnalyze]_vars

----------------------------------------------------------------------------
(* The claims *)

\* the calls made so far, of both paths
CliReturned == {cliCalls[i] : i \in DOMAIN cliCalls}

HttpReturned == {httpCalls[i] : i \in DOMAIN httpCalls}

\* an Issue as both copies report it: its severity and its category
IssueKinds(issues) == {<<issues[i].severity, issues[i].category>> : i \in DOMAIN issues}

\* C1: for the same input code, the command-line analyzeCode and the service's
\* analyzeCode report the same metrics.complexity and the same set of Issues.
CrossCallerEquivalence ==
    \A c \in CliReturned, h \in HttpReturned :
        c.code = h.code =>
            /\ c.report.metrics.complexity = h.report.metrics.complexity
            /\ IssueKinds(c.report.issues) = IssueKinds(h.report.issues)

\* summary.high + summary.medium + summary.low + summary.info == n: a count the
\* summary does not hold is undefined, and the sum is then NaN, equal to no number
SeveritySumIs(summary, n) ==
    /\ {"high", "medium", "low", "info"} \subseteq DOMAIN summary
    /\ summary.high + summary.medium + summary.low + summary.info = n

SummaryConsistent(report) ==
    /\ report.summary.total_issues = Len(report.issues)
    /\ SeveritySumIs(report.summary, Len(report.issues))

\* C2: every Report returned by analyze, on either path, has
\* summary.total_issues == issues.length and
\* summary.high + summary.medium + summary.low + summary.info == issues.length.
SummaryConsistency ==
    \A c \in CliReturned \cup HttpReturned : SummaryConsistent(c.report)

\* s has, from index i on, a run of exactly n characters = that no = precedes or follows
EqRunAt(s, i, n) ==
    /\ i >= 1 /\ i + n - 1 <= Len(s)
    /\ \A k \in 0..(n - 1) : s[i + k] = "="
    /\ ~ (i >= 2 /\ s[i - 1] = "=")
    /\ ~ (i + n <= Len(s) /\ s[i + n] = "=")

\* s contains the operator ==
HasLooseEqOperator(s) == \E i \in 1..Len(s) : EqRunAt(s, i, 2)

\* the equality operators of s are all ===, and there is one
OnlyStrictEqOperator(s) ==
    /\ \E i \in 1..Len(s) : EqRunAt(s, i, 3)
    /\ \A i \in 1..Len(s), n \in 2..Len(s) : EqRunAt(s, i, n) => n = 3

LOOSE_EQ_MESSAGE == "Use === instead of == for strict equality"

LooseEqIssues(issues) == {i \in DOMAIN issues : issues[i].message = LOOSE_EQ_MESSAGE}

\* C3: analyze emits exactly one loose-equality Issue, of severity low, when the code
\* contains the operator ==, and none when the only equality operator of the code
\* is ===.
LooseEqualityDetection ==
    \A c \in CliReturned :
        /\ HasLooseEqOperator(c.code) =>
              /\ Cardinality(LooseEqIssues(c.report.issues)) = 1
              /\ \A i \in LooseEqIssues(c.report.issues) :
                    c.report.issues[i].severity = "low"
        /\ OnlyStrictEqOperator(c.code) => LooseEqIssues(c.report.issues) = {}

\* the lines of the code (1-based) that hold what triggers the rule of the message
TriggerLines(code, message) ==
    LET lines == Split(code, NL)
    IN  {i \in 1..Len(lines) :
            CASE message = "Dangerous use of eval() detected - security risk" ->
                    Includes(lines[i], EVAL)
              [] message = "Direct innerHTML assignment can lead to XSS vulnerabilities" ->
                    MatchesInnerHTMLAssign(lines[i])
              [] message = "Use let or const instead of var for better scoping" ->
                    Includes(lines[i], VAR)
              [] message = "Remove console.log statements before production" ->
                    Includes(lines[i], CONSOLE_LOG)
              [] OTHER -> HasLooseEqOperator(lines[i])}

\* C4: the line of every Issue is the 1-based index of the first line that holds
\* what triggered its rule: for the innerHTML rule the first line with a direct
\* innerHTML assignment, for the loose-equality rule the first line with a ==
\* that is not part of a ===.
IssueLineIsFirstTriggerLine ==
    \A c \in CliReturned : \A i \in DOMAIN c.report.issues :
        LET hits == TriggerLines(c.code, c.report.issues[i].message)
        IN  hits # {} =>
                /\ c.report.issues[i].line \in hits
                /\ \A j \in hits : c.report.issues[i].line <= j

\* the messages of the five rules, in the order the source evaluates the rules
RuleMessages ==
    << "Dangerous use of eval() detected - security risk",
       "Direct innerHTML assignment can lead to XSS vulnerabilities",
       "Use let or const instead of var for better scoping",
       "Remove console.log statements before production",
       LOOSE_EQ_MESSAGE >>

\* the rule an Issue of the command-line tool comes from
RuleIndex(issue) == CHOOSE k \in DOMAIN RuleMessages : RuleMessages[k] = issue.message

HighSecurityIssues(issues) ==
    {i \in DOMAIN issues :
        issues[i].severity = "high" /\ issues[i].category = "security"}

HighIssues(issues) == {i \in DOMAIN issues : issues[i].severity = "high"}

EvalRuleHolds(call) ==
    IF Includes(call.code, EVAL)
    THEN /\ Cardinality(HighIssues(call.report.issues)) = 1
         /\ HighIssues(call.report.issues) = HighSecurityIssues(call.report.issues)
    ELSE HighIssues(call.report.issues) = {}

\* C5: each of the five rules contributes at most one Issue per scan, however often
\* its pattern occurs, so issues.length <= 5; code with eval( yields exactly one
\* Issue of severity high, of category security, and code without it none.
AtMostOneIssuePerRule ==
    /\ \A c \in CliReturned :
          /\ Len(c.report.issues) <= 5
          /\ \A i, j \in DOMAIN c.report.issues :
                c.report.issues[i].message = c.report.issues[j].message => i = j
          /\ \A i \in DOMAIN c.report.issues :
                \E k \in DOMAIN RuleMessages : RuleMessages[k] = c.report.issues[i].message
          /\ EvalRuleHolds(c)
    /\ \A h \in HttpReturned : EvalRuleHolds(h)

\* eval( occurs twice or more in the analysed code, on both paths
EvalTwiceAnalysed ==
    /\ CountRegExp(input, <<EVAL>>, 1) >= 2
    /\ CliReturned # {}
    /\ HttpReturned # {}

\* C6: the issues of a Report are in the order of the rules (eval, innerHTML, var,
\* console.log, loose equality), whatever their severities and their lines.
IssuesInRuleOrder ==
    \A c \in CliReturned : \A i, j \in DOMAIN c.report.issues :
        i < j => RuleIndex(c.report.issues[i]) < RuleIndex(c.report.issues[j])

SeverityRank(severity) ==
    CASE severity = "high" -> 3
      [] severity = "medium" -> 2
      [] severity = "low" -> 1
      [] OTHER -> 0

\* a Report whose rule order is neither the order of the lines nor of the severities
RuleOrderAgainstLinesAndSeverities ==
    \E c \in CliReturned : \E i, j \in DOMAIN c.report.issues :
        /\ i < j
        /\ c.report.issues[i].line > c.report.issues[j].line
        /\ SeverityRank(c.report.issues[i].severity)
              < SeverityRank(c.report.issues[j].severity)

\* the whole-word occurrences of word w in s
WordOccurrences(s, w) ==
    Cardinality({i \in 1..Len(s) :
                    OccursAt(s, w, i) /\ ~ IsWordAt(s, i - 1) /\ ~ IsWordAt(s, i + Len(w))})

\* the occurrences of the substring p in s from index i on, counted left to right
RECURSIVE SubstringOccurrences(_, _, _)
SubstringOccurrences(s, p, i) ==
    IF i + Len(p) - 1 > Len(s) THEN 0
    ELSE IF OccursAt(s, p, i) THEN 1 + SubstringOccurrences(s, p, i + Len(p))
    ELSE SubstringOccurrences(s, p, i + 1)

\* 1 plus the occurrences of if, else, for, while, case, && and ||
DecisionPoints(s) ==
    1 + WordOccurrences(s, <<"i","f">>) + WordOccurrences(s, <<"e","l","s","e">>)
      + WordOccurrences(s, <<"f","o","r">>) + WordOccurrences(s, <<"w","h","i","l","e">>)
      + WordOccurrences(s, <<"c","a","s","e">>)
      + SubstringOccurrences(s, <<"&","&">>, 1) + SubstringOccurrences(s, <<"|","|">>, 1)

\* C7: on every path that reports a complexity, metrics.complexity is 1 plus the
\* number of occurrences of if, else, for, while, case (whole words), && and ||
\* (substrings) in the code, and so at least 1.
ComplexityCountsDecisionPoints ==
    \A c \in CliReturned \cup HttpReturned :
        /\ c.report.metrics.complexity = DecisionPoints(c.code)
        /\ c.report.metrics.complexity >= 1

\* the rating of the specification: <= 5, <= 10, <= 20, above
RatingOf(complexity) ==
    IF complexity <= 5 THEN "simple"
    ELSE IF complexity <= 10 THEN "moderate"
    ELSE IF complexity <= 20 THEN "complex"
    ELSE "very_complex"

\* C8: the rating of every Report is simple for a complexity of at most 5, moderate
\* for 6..10, complex for 11..20 and very_complex above 20: 4 decision keywords are
\* rated simple, 5 moderate.
RatingFollowsThresholds ==
    /\ \A c \in CliReturned :
          c.report.metrics.complexity_rating = RatingOf(c.report.metrics.complexity)
    /\ \A h \in HttpReturned :
          h.report.metrics.rating = RatingOf(h.report.metrics.complexity)

\* C9: analyze("") returns lines = 1, complexity = 1, issues = [] and
\* summary.total_issues = 0.
EmptyInputReport ==
    \A c \in CliReturned :
        c.code = <<>> =>
            /\ c.report.metrics.lines = 1
            /\ c.report.metrics.complexity = 1
            /\ c.report.issues = <<>>
            /\ c.report.summary.total_issues = 0

\* the empty string has been analysed
EmptyInputAnalysed == \E c \in CliReturned : c.code = <<>>

\* a Report without its timestamp; the service's Report has none
Findings(report) ==
    [metrics |-> report.metrics, issues |-> report.issues, summary |-> report.summary]

\* C10: two calls of analyze on the same code return the same metrics, issues and
\* summary, whatever calls happened in between; analyzed_at is left out.
RepeatedCallsAgree ==
    /\ \A i, j \in DOMAIN cliCalls :
          cliCalls[i].code = cliCalls[j].code =>
              Findings(cliCalls[i].report) = Findings(cliCalls[j].report)
    /\ \A i, j \in DOMAIN httpCalls :
          httpCalls[i].code = httpCalls[j].code =>
              Findings(httpCalls[i].report) = Findings(httpCalls[j].report)

\* on both paths the same code was analysed twice, at different times on the
\* command line, with a call on another code that finds other issues in between
RepeatedWithAnotherBetween ==
    /\ \E i, k, j \in DOMAIN cliCalls :
          /\ i < k /\ k < j
          /\ cliCalls[i].code = cliCalls[j].code
          /\ cliCalls[i].report.analyzed_at # cliCalls[j].report.analyzed_at
          /\ cliCalls[k].code # cliCalls[i].code
          /\ cliCalls[k].report.issues # cliCalls[i].report.issues
          /\ cliCalls[i].report.issues # <<>>
    /\ \E i, k, j \in DOMAIN httpCalls :
          /\ i < k /\ k < j
          /\ httpCalls[i].code = httpCalls[j].code
          /\ httpCalls[k].code # httpCalls[i].code
          /\ httpCalls[k].report.issues # httpCalls[i].report.issues

\* the Report of the specification: language, metrics, issues, summary, analyzed_at
IsCompleteReport(report) ==
    /\ DOMAIN report = {"language", "metrics", "issues", "summary", "analyzed_at"}
    /\ DOMAIN report.metrics =
          {"lines", "characters", "words", "complexity", "complexity_rating",
           "function_count", "average_line_length"}
    /\ report.metrics.lines >= 1
    /\ report.metrics.complexity >= 1
    /\ DOMAIN report.summary = {"total_issues", "high", "medium", "low", "info"}
    /\ \A i \in DOMAIN report.issues :
          DOMAIN report.issues[i] = {"severity", "line", "message", "category"}

\* the parentheses of s do not pair: s is not JavaScript
UnpairedParens(s) ==
    Cardinality({i \in 1..Len(s) : s[i] = "("}) # Cardinality({i \in 1..Len(s) : s[i] = ")"})

\* C15: analyze returns a complete Report (language, metrics, issues, summary,
\* analyzed_at) for every string, also for text that is not JavaScript: no outcome
\* tells invalid code apart.
AnalyzeAlwaysReturnsReport ==
    \A c \in CliReturned : IsCompleteReport(c.report)

\* text that is not JavaScript has been analysed, and a Report with issues returned
InvalidCodeAnalysed ==
    \E c \in CliReturned :
        /\ UnpairedParens(c.code)
        /\ IsCompleteReport(c.report)
        /\ c.report.issues # <<>>

\* the end e of the match of /function\s+\w+/ that starts at i
IsFunctionDecl(s, i, e) ==
    /\ OccursAt(s, FUNCTION, i)
    /\ \E m \in (i + Len(FUNCTION))..(e - 1) :
          /\ \A k \in (i + Len(FUNCTION))..m : IsSpace(s[k])
          /\ \A k \in (m + 1)..e : IsWordChar(s[k])
    /\ e <= Len(s)
    /\ ~ IsWordAt(s, e + 1)

\* the end e of the match of /\w+\s*=\s*\(/ that starts at i
IsAssignedParen(s, i, e) ==
    /\ e <= Len(s) /\ s[e] = "("
    /\ \E a \in i..(e - 2), b \in (i + 1)..(e - 1) :
          /\ a < b
          /\ \A k \in i..a : IsWordChar(s[k])
          /\ \A k \in (a + 1)..(b - 1) : IsSpace(s[k])
          /\ s[b] = "="
          /\ \A k \in (b + 1)..(e - 1) : IsSpace(s[k])

\* the end e of the match of /=>\s*{/ that starts at i
IsArrowBody(s, i, e) ==
    /\ OccursAt(s, <<"=", ">">>, i)
    /\ e >= i + 2 /\ e <= Len(s) /\ s[e] = "{"
    /\ \A k \in (i + 2)..(e - 1) : IsSpace(s[k])

\* the end of the match of pattern k at i, 0 if there is none
PatternEnd(s, k, i) ==
    LET ends == {e \in i..Len(s) :
                    CASE k = 1 -> IsFunctionDecl(s, i, e)
                      [] k = 2 -> IsAssignedParen(s, i, e)
                      [] OTHER -> IsArrowBody(s, i, e)}
    IN  IF ends = {} THEN 0 ELSE CHOOSE e \in ends : \A f \in ends : e >= f

\* the matches of pattern k in s from i on: found left to right, none overlapping
RECURSIVE PatternCount(_, _, _)
PatternCount(s, k, i) ==
    IF i > Len(s) THEN 0
    ELSE IF PatternEnd(s, k, i) = 0 THEN PatternCount(s, k, i + 1)
    ELSE 1 + PatternCount(s, k, PatternEnd(s, k, i) + 1)

\* C17: function_count is the sum of the counts of three patterns, each counted on
\* its own (named function declarations, identifiers assigned a parenthesis, arrows
\* before a brace): f = () => { matches two of them and counts twice.
FunctionCountSumsPatterns ==
    \A c \in CliReturned :
        /\ c.report.metrics.function_count =
              PatternCount(c.code, 1, 1) + PatternCount(c.code, 2, 1)
                  + PatternCount(c.code, 3, 1)
        /\ c.code = ARROW_ASSIGN_CODE => c.report.metrics.function_count = 2

\* f = () => { has been analysed and counted twice
ArrowAssignCountedTwice ==
    \E c \in CliReturned :
        c.code = ARROW_ASSIGN_CODE /\ c.report.metrics.function_count = 2

\* the substring analyzeCode hands to findLineNumber for the rule of the issue
SearchedSubstring(issue) ==
    CASE RuleIndex(issue) = 1 -> EVAL
      [] RuleIndex(issue) = 2 -> INNERHTML
      [] RuleIndex(issue) = 3 -> VAR
      [] RuleIndex(issue) = 4 -> CONSOLE_LOG
      [] OTHER -> <<"=", "=">>

\* C20: for every Issue of the command-line analyze, 1 <= line <= metrics.lines and
\* the line of the input at that index holds the substring the rule searched for:
\* the line is never the default of findLineNumber.
IssueLineHoldsSearchedSubstring ==
    \A c \in CliReturned : \A i \in DOMAIN c.report.issues :
        LET lines == Split(c.code, NL)
            n == c.report.issues[i].line
        IN  /\ 1 <= n
            /\ n <= c.report.metrics.lines
            /\ Includes(lines[n], SearchedSubstring(c.report.issues[i]))

\* an Issue found below the first line, by a rule whose pattern is a regular expression
IssueBelowFirstLine ==
    \E c \in CliReturned : \E i \in DOMAIN c.report.issues :
        /\ c.report.issues[i].line >= 2
        /\ RuleIndex(c.report.issues[i]) = 2

\* the run of the command-line tool has ended
MainExited == cliRun # <<>>

\* C16: a run of analyze-code.js exits with 0 and the complete Report on standard
\* output exactly when it is given a non-empty code, whatever the Report's issues
\* are; with the code missing or empty it exits with 1, prints no Report and
\* writes the error to standard error
ExitStatusReportsCompletion ==
    MainExited =>
        LET run == cliRun[1]
            given == Len(run.argv) >= 1 /\ run.argv[1] # <<>>
        IN  /\ run.status \in {0, 1}
            /\ run.status = 0 <=> given
            /\ given =>
                  /\ Len(run.stdout) = 1
                  /\ IsCompleteReport(run.stdout[1])
                  /\ run.stdout[1].issues = detectIssues(run.argv[1])
                  /\ run.stderr = <<>>
            /\ ~ given =>
                  /\ run.stdout = <<>>
                  /\ run.stderr = << [error |-> "Code argument is required"] >>

\* a run on a code with a high-severity issue has exited with 0
HighIssueExitsZero ==
    /\ MainExited
    /\ cliRun[1].status = 0
    /\ cliRun[1].stdout[1].summary.high > 0

\* the requests that have been answered
Answered == {r \in 1..MaxRequests : requests[r].pc = "done" /\ requests[r].sent # <<>>}

\* the requests to /analyze answered with a result that holds suggestions
Suggested ==
    {r \in Answered : /\ requests[r].route = "analyze"
                      /\ requests[r].sent[1].status = 200
                      /\ "suggestions" \in DOMAIN requests[r].sent[1].body}

\* the suggestions of a type
OfType(suggestions, type) == SelectSeq(suggestions, LAMBDA s : s.type = type)

AnalyzeAnswered == {r \in Answered : requests[r].route = "analyze"}

\* the value of a flag of the body, its default when it is absent
Flag(body, field, default) == IF Has(body, field) THEN body[field] ELSE default

\* two requests carry the same code and the same include_suggestions
SameCodeAndSuggestions(r, q) ==
    LET b == requests[r].body
        c == requests[q].body
    IN  /\ Has(b, "code") = Has(c, "code")
        /\ Has(b, "code") => b.code.type = c.code.type /\ b.code = c.code
        /\ Flag(b, "include_suggestions", TRUE) = Flag(c, "include_suggestions", TRUE)

\* C12: for the same code and the same include_suggestions, an /analyze request
\* with deep = true is answered with the same status and the same metrics,
\* issues, summary and suggestions as one with deep = false
DeepDoesNotAlterOutput ==
    \A r, q \in AnalyzeAnswered :
        (/\ SameCodeAndSuggestions(r, q)
         /\ Flag(requests[r].body, "deep", FALSE)
         /\ ~ Flag(requests[q].body, "deep", FALSE))
        => requests[r].sent = requests[q].sent

\* a deep request and a plain request on the same code have both been answered
\* with a result, the deep one after its delay
DeepAndPlainAnswered ==
    \E r, q \in AnalyzeAnswered :
        /\ SameCodeAndSuggestions(r, q)
        /\ Flag(requests[r].body, "deep", FALSE)
        /\ ~ Flag(requests[q].body, "deep", FALSE)
        /\ "setTimeout" \in {requests[r].calls[i] : i \in DOMAIN requests[r].calls}
        /\ requests[r].sent[1].status = 200
        /\ requests[r].sent[1].body.issues # <<>>

\* C13: the delay of the deep mode does not block the other requests: while a
\* request waits in its delay, the handler of every request that has arrived
\* can run, and it runs to its response (or to its own delay) while the waiting
\* request goes on waiting
DelayDoesNotBlock ==
    \A r \in Delayed :
        \A q \in 1..MaxRequests :
            requests[q].pc = "arrived" =>
                ENABLED (/\ Handle(q)
                         /\ requests'[q].pc \in {"done", "delay"}
                         /\ requests'[q].pc = "done" => Len(requests'[q].sent) = 1
                         /\ requests'[r] = requests[r])

\* a request that arrived while another waited in its delay has been answered,
\* and the other still waits
AnsweredDuringDelay ==
    \E q \in Answered :
        \E r \in requests[q].behind : requests[r].pc = "delay"

\* the requests answered with a result
Succeeded == {r \in Answered : requests[r].sent[1].status = 200}

\* an analysis is the one of the code: its lines, its complexity, its eval issue
AnalysisOf(analysis, code) ==
    /\ analysis.metrics.lines = Len(Split(code, NL))
    /\ analysis.metrics.complexity = serverCalculateComplexity(code)
    /\ analysis.issues # <<>> <=> Includes(code, EVAL)
    /\ analysis.summary.total_issues = Len(analysis.issues)
    /\ analysis.summary.high = Len(analysis.issues)

\* a response without the readings of the clock
Untimed(response) ==
    [response EXCEPT !.body = Pick(DOMAIN response.body \ {"processed_at", "uptime", "timestamp"},
                                   response.body)]

\* C14: under every interleaving of the requests, each result is the analysis
\* (or the formatting) of the code of its own request, and two requests with the
\* same route and body get the same response, up to the readings of the clock,
\* whatever the other requests were and whenever they came
NoCrossCallState ==
    /\ \A r \in Succeeded :
          LET request == requests[r]
              result == request.sent[1].body
          IN  /\ request.route = "analyze" => AnalysisOf(result, request.body.code.string)
              /\ request.route = "process" /\ "analysis" \in DOMAIN result.results =>
                    AnalysisOf(result.results.analysis, request.body.code.string)
              /\ request.route = "process" /\ "formatting" \in DOMAIN result.results =>
                    result.results.formatting.original = request.body.code.string
              /\ request.route = "format" => result.original = request.body.code.string
    /\ \A r, q \in Answered :
          (/\ requests[r].route = requests[q].route
           /\ DOMAIN requests[r].body = DOMAIN requests[q].body
           /\ requests[r].body = requests[q].body)
          => Untimed(requests[r].sent[1]) = Untimed(requests[q].sent[1])

\* a request on a code without eval( arrived while a request on a code with
\* eval( waited in its delay; both have been answered, each with its own issues
InterleavedOnDifferentCodes ==
    \E q \in Succeeded :
        \E r \in requests[q].behind \cap Succeeded :
            /\ requests[q].route = "analyze"
            /\ requests[r].sent[1].body.issues # <<>>
            /\ requests[q].sent[1].body.issues = <<>>

\* the routes of the POST handlers
PostRoutes == {"process", "analyze", "format"}

\* the code of the body is absent or empty
CodeAbsentOrEmpty(body) ==
    \/ "code" \notin DOMAIN body
    \/ body.code.type = "string" /\ body.code.string = <<>>

\* the handler of the route throws on the body: it calls a method of String on a
\* code that is no string, includes on operations that are no array, or reads a
\* property of options that are null
HandlerThrows(route, body) ==
    LET noString == body.code.type # "string"
        ops == IF "operations" \in DOMAIN body
               THEN {body.operations.array[i] : i \in DOMAIN body.operations.array}
               ELSE {"validate", "analyze"}
    IN  CASE route = "analyze" -> noString
          [] route = "format" ->
                noString \/ ("options" \in DOMAIN body /\ body.options.type = "null")
          [] route = "process" ->
                IF "operations" \in DOMAIN body /\ body.operations.type # "array"
                THEN TRUE
                ELSE noString /\ ops \cap {"analyze", "format"} # {}

\* the status the request is to be answered with
ExpectedStatus(route, body) ==
    IF CodeAbsentOrEmpty(body) THEN 400
    ELSE IF HandlerThrows(route, body) THEN 500
    ELSE 200

\* the request has got exactly one response
AnsweredOnce(r) == requests[r].pc = "done" /\ Len(requests[r].sent) = 1

\* the POST requests that have arrived
Posted == {r \in 1..MaxRequests : requests[r].pc # "none" /\ requests[r].route \in PostRoutes}

\* a request never has two responses; once its handler has ended it has one, of
\* the status its body calls for; a 400 comes with the error 'Code is required'
\* and without any call, a response to a deep request with a code comes after
\* the delay
ResponseMatchesRequest ==
    \A r \in Posted :
        LET request == requests[r]
            called == {request.calls[i] : i \in DOMAIN request.calls}
        IN  /\ Len(request.sent) <= 1
            /\ request.pc # "done" => request.sent = <<>>
            /\ request.pc = "done" =>
                  /\ Len(request.sent) = 1
                  /\ request.sent[1].status = ExpectedStatus(request.route, request.body)
                  /\ request.sent[1].status = 400 =>
                        /\ request.sent[1].body = [error |-> "Code is required"]
                        /\ called = {}
                  /\ (/\ request.route = "analyze"
                      /\ request.sent[1].status # 400
                      /\ Flag(request.body, "deep", FALSE)) => "setTimeout" \in called

\* C18: every request to POST /process, /analyze or /format eventually gets
\* exactly one response, never none and never two: 400 with 'Code is required'
\* when the code is absent or empty, without delay and without any call of
\* validateCode, analyzeCode or formatCode; 500 when the handler throws; 200
\* with the result otherwise, also after the delay of the deep mode
EveryRequestAnsweredOnce ==
    /\ [] ResponseMatchesRequest
    /\ <>[] (\A r \in Posted : AnsweredOnce(r))

\* all three statuses have been sent, the 500 after the delay of a deep request
AllStatusesAnswered ==
    /\ \A r \in 1..MaxRequests : r \in Posted /\ AnsweredOnce(r)
    /\ \E r \in Posted :
          /\ requests[r].sent[1].status = 500
          /\ "setTimeout" \in {requests[r].calls[i] : i \in DOMAIN requests[r].calls}
    /\ \E r \in Posted : requests[r].sent[1].status \in {200, 400}

\* the entry of results that an operation produces
EntryOf == [validate |-> "validation", analyze |-> "analysis", format |-> "formatting"]

\* the requests to /process answered with results
Processed == {r \in Succeeded : requests[r].route = "process"}

\* C19: in a /process response every operation of operations_completed has its
\* entry in results (validate -> validation, analyze -> analysis, format ->
\* formatting), results holds entries of requested operations only, and with
\* operations omitted exactly validation and analysis are produced
CompletedOperationsHaveResults ==
    \A r \in Processed :
        LET body == requests[r].body
            result == requests[r].sent[1].body
            completed == {result.operations_completed[i] :
                            i \in DOMAIN result.operations_completed}
            requested == IF "operations" \in DOMAIN body
                         THEN {body.operations.array[i] : i \in DOMAIN body.operations.array}
                         ELSE {"validate", "analyze"}
        IN  /\ \A op \in completed :
                  op \in DOMAIN EntryOf /\ EntryOf[op] \in DOMAIN result.results
            /\ \A entry \in DOMAIN result.results :
                  \E op \in requested \cap DOMAIN EntryOf : EntryOf[op] = entry
            /\ "operations" \notin DOMAIN body =>
                  DOMAIN result.results = {"validation", "analysis"}

====
